---- MODULE Spec2Model ----
(***************************************************************************)
(* Model of src/src/main.cpp (mhco0/image-tools): the per-channel          *)
(* histogram of a bitmap, the histogram chart, histogram equalization and  *)
(* the two binarizations (Cutout, TwoPeaks).                               *)
(*                                                                         *)
(* The pixel buffer (BmpImg, libbmp) is an external collaborator.  It is   *)
(* modelled as its width, its height and its pixels in the order the       *)
(* loops of main.cpp visit them (x outer, y inner), run-length encoded: a  *)
(* run [r, g, b, n] stands for n consecutive pixels of colour (r, g, b).   *)
(* Every loop over the pixels in main.cpp treats a pixel by its colour     *)
(* alone, so a loop over the pixels is a loop over the runs, each run      *)
(* counting n times.  This lets the model hold images of 10^5 pixels,      *)
(* which the overflow in TwoPeaks needs.                                   *)
(***************************************************************************)
EXTENDS Integers, Sequences, FiniteSets, TLC

VARIABLES
    img,        \* the bitmap the operations work on (input_image of main)
    log,        \* the calls made so far: [op, cut, before], oldest first
    histogram,  \* the RGBHistogram the last call computed (a local of it)
    chart,      \* the image CreateHistogramImage returned, or NoChart
    error       \* the failure the last call reported to its caller

vars == <<img, log, histogram, chart, error>>

----------------------------------------------------------------------------
(* Bounds of the model. *)

\* Times a command is run on an image: once on the input and then again on
\* its own output.
MaxRuns == 2
\* Heights tried for an image of a given pixel count.
MaxHeight == 2

\* Colours of the input images.  Red has four distinct values; green is 50
\* in two colours (a channel can be constant while the others are not);
\* blue holds 0, 100 and 255 (a far bin and a middle bin for TwoPeaks).
Palette ==
    << [r |-> 0,   g |-> 50,  b |-> 0],
       [r |-> 128, g |-> 200, b |-> 255],
       [r |-> 100, g |-> 100, b |-> 100],
       [r |-> 255, g |-> 50,  b |-> 127] >>

\* Pixels of one colour in an input image.  255^2 * 33100 > 2^31 - 1.
RunLengths == {1, 255, 33100}

\* Cut points handed to Binarize when it is called directly.
CutPoints == {0, 100, 255}

\* Factors by which a histogram is scaled (claim C8).
Scales == {2, 33100}

----------------------------------------------------------------------------
(* Program constants. *)

NumBins == 256
lr_borders == 30
tb_borders == 10
in_between_borders == 30
graph_width == 256
graph_height == 256
CutoutPoint == 128

Bins == 0 .. (NumBins - 1)
Channels == {"red", "green", "blue"}

INT_MAX == (2^30 - 1) * 2 + 1
INT_MIN == -INT_MAX - 1

\* static_cast<byte>(int), and an int returned as byte: modulo 2^8.
ToByte(n) == n % 256

\* The image's value of a channel in a pixel (red_at, green_at, blue_at).
ChannelOf(p, ch) ==
    CASE ch = "red"   -> p.r
      [] ch = "green" -> p.g
      [] ch = "blue"  -> p.b

----------------------------------------------------------------------------
(* Undefined behaviour: each is a choice among the results a build gives.  *)

\* (i - peak) * (i - peak) * histogram[i] is an int product (signed
\* overflow): "wrap" is the 32-bit imul followed by sign extension, "wide"
\* a build that folds the sign extension into a 64-bit multiplication.
OverflowBuilds == {"wrap", "wide"}

\* Conversion of a NaN (0 / 0.0) to int: cvttsd2si gives INT_MIN (x86),
\* fcvtzs gives 0 (ARM).
NaNToInt == {INT_MIN, 0}

----------------------------------------------------------------------------
(* int64_t values.  TLC's integers are 32 bits wide, so an int64_t is the  *)
(* pair [hi, lo] with value hi * 2^30 + lo and 0 <= lo < 2^30.             *)

Limb == 2^15
Half == 2^30

ToInt64(n) == [hi |-> n \div Half, lo |-> n % Half]

Less64(a, b) == a.hi < b.hi \/ (a.hi = b.hi /\ a.lo < b.lo)

\* The exact product a * c for 0 <= a < 2^16 and 0 <= c < 2^31, by limbs
\* of 15 bits.
WideProduct(a, c) ==
    LET c0 == c % Limb
        c1 == (c \div Limb) % Limb
        c2 == c \div Half
        t0 == a * c0
        t1 == a * c1 + (t0 \div Limb)
        t2 == a * c2 + (t1 \div Limb)
    IN  [hi |-> t2, lo |-> (t1 % Limb) * Limb + (t0 % Limb)]

\* The low 32 bits of an int64_t read as a signed int, sign extended.
WrapInt32(v) ==
    LET top == v.hi % 4
    IN  [hi |-> IF top >= 2 THEN top - 4 ELSE top, lo |-> v.lo]

----------------------------------------------------------------------------
(* The image. *)

RECURSIVE RunTotal(_, _)
RunTotal(pixels, k) ==
    IF k > Len(pixels) THEN 0 ELSE pixels[k].n + RunTotal(pixels, k + 1)

\* get_width() * get_height() pixels are stored.
PixelCount(image) == RunTotal(image.pixels, 1)

\* The runs of an input image: each palette colour at most once, in palette
\* order, with a length of RunLengths (0: the colour is absent).
RECURSIVE RunsOf(_, _)
RunsOf(counts, k) ==
    IF k > Len(Palette) THEN <<>>
    ELSE IF counts[k] = 0 THEN RunsOf(counts, k + 1)
    ELSE <<[r |-> Palette[k].r, g |-> Palette[k].g, b |-> Palette[k].b,
            n |-> counts[k]]>> \o RunsOf(counts, k + 1)

\* The (width, height) pairs tried for `total` pixels.
Dimensions(total) ==
    { <<total \div h, h>> : h \in {d \in 1 .. MaxHeight : total % d = 0} }
    \cup (IF total = 0 THEN {<<0, 0>>, <<1, 0>>} ELSE {})

InputImages ==
    UNION { { [width |-> d[1], height |-> d[2], pixels |-> RunsOf(c, 1)] :
                d \in Dimensions(RunTotal(RunsOf(c, 1), 1)) } :
            c \in [1 .. Len(Palette) -> RunLengths \cup {0}] }

----------------------------------------------------------------------------
(* GetHistogram. *)

ZeroHistogram ==
    [red   |-> [k \in Bins |-> 0],
     green |-> [k \in Bins |-> 0],
     blue  |-> [k \in Bins |-> 0]]

\* The loop body, once per pixel of run k: histogram.red[red_at(x, y)]++ ...
RECURSIVE ScanPixels(_, _, _)
ScanPixels(pixels, k, h) ==
    IF k > Len(pixels) THEN h
    ELSE ScanPixels(pixels, k + 1,
            LET p  == pixels[k]
                h1 == [h  EXCEPT !.red[p.r]   = @ + p.n]
                h2 == [h1 EXCEPT !.green[p.g] = @ + p.n]
            IN  [h2 EXCEPT !.blue[p.b] = @ + p.n])

\* Mutant: the scan starts at the second pixel run.
GetHistogram_SkipsFirst(image) == ScanPixels(image.pixels, 2, ZeroHistogram)

GetHistogram(image) == ScanPixels(image.pixels, 1, ZeroHistogram)

----------------------------------------------------------------------------
(* Binarize and Cutout. *)

\* Mutant: the comparison is not strict.
BinarizeChannel_NotStrict(value, cut_point) ==
    ToByte(IF value <= cut_point THEN 0 ELSE 255)

BinarizeChannel(value, cut_point) ==
    ToByte(IF value < cut_point THEN 0 ELSE 255)

BinarizePixel(p, cut) ==
    [r |-> BinarizeChannel(p.r, cut[1]),
     g |-> BinarizeChannel(p.g, cut[2]),
     b |-> BinarizeChannel(p.b, cut[3]),
     n |-> p.n]

\* The cut points are byte parameters.
Binarize(image, red_cut_point, green_cut_point, blue_cut_point) ==
    [image EXCEPT !.pixels =
        [k \in 1 .. Len(image.pixels) |->
            BinarizePixel(image.pixels[k],
                          <<ToByte(red_cut_point), ToByte(green_cut_point),
                            ToByte(blue_cut_point)>>)]]

Cutout(image) == Binarize(image, CutoutPoint, CutoutPoint, CutoutPoint)

----------------------------------------------------------------------------
(* std::max_element and the lambdas of TwoPeaks. *)

\* The loops over the 256 bins are written as the loop over lo .. mid
\* followed by the loop over mid + 1 .. hi, which is the same iterations in
\* the same order (TLC's stack does not hold 256 nested calls).  TLC
\* computes a value where it is first used: Done(v) uses v, so that the
\* first loop has run when the second starts.
Done(v) == v = v

\* The scan of std::max_element over the indices lo .. hi, entered with
\* `largest`: it keeps `largest` unless input[largest] < input[i], so it
\* ends on the first index holding the maximum.
RECURSIVE max_element_loop(_, _, _, _)
max_element_loop(input, lo, hi, largest) ==
    IF lo > hi THEN largest
    ELSE IF lo = hi
    THEN IF Less64(input[largest], input[lo]) THEN lo ELSE largest
    ELSE LET mid == (lo + hi) \div 2
             first == max_element_loop(input, lo, mid, largest)
         IN  IF Done(first)
             THEN max_element_loop(input, mid + 1, hi, first)
             ELSE first

\* std::max_element(input, input + 256), as an index.
max_element(input) == max_element_loop(input, 1, NumBins - 1, 0)

\* get_index_of_max_value, on an array of int64_t.
get_index_of_max_value(input) == ToByte(max_element(input))

\* int counts seen as int64_t, for the one comparison above.
AsInt64(counts) == [i \in Bins |-> ToInt64(counts[i])]

\* (i - peak) * (i - peak) * count, stored into an int64_t.
SparseDistance(i, peak, count, build) ==
    LET exact == WideProduct((i - peak) * (i - peak), count)
    IN  IF build = "wrap" THEN WrapInt32(exact) ELSE exact

sparse_distances(counts, peak, build) ==
    [i \in Bins |-> SparseDistance(i, peak, counts[i], build)]

\* first_peaks[c], second_peaks[c] and cut_points[c] of one channel.
CutPointOf(counts, build) ==
    LET first  == get_index_of_max_value(AsInt64(counts))
        second == get_index_of_max_value(sparse_distances(counts, first, build))
    IN  ToByte((first + second) \div 2)

TwoPeaksCuts(h, build) ==
    <<CutPointOf(h.red, build), CutPointOf(h.green, build),
      CutPointOf(h.blue, build)>>

TwoPeaks(image, build) ==
    LET cut == TwoPeaksCuts(GetHistogram(image), build)
    IN  [image |-> Binarize(image, cut[1], cut[2], cut[3]), cut |-> cut]

----------------------------------------------------------------------------
(* Equalize. *)

\* set_cdf: output is zeroed (memset), output[0] = input[0], then
\* output[i] = input[i] + output[i - 1] for i = 1 .. size - 1.
RECURSIVE set_cdf_loop(_, _, _, _)
set_cdf_loop(input, output, lo, hi) ==
    IF lo > hi THEN output
    ELSE IF lo = hi
    THEN [output EXCEPT ![lo] = input[lo] + output[lo - 1]]
    ELSE LET mid == (lo + hi) \div 2
             first == set_cdf_loop(input, output, lo, mid)
         IN  IF Done(first)
             THEN set_cdf_loop(input, first, mid + 1, hi)
             ELSE first

set_cdf(input) ==
    set_cdf_loop(input, [[k \in Bins |-> 0] EXCEPT ![0] = input[0]],
                 1, NumBins - 1)

\* get_min_on_cdf: the first nonzero element, 0 when there is none.  The
\* scan of lo .. hi returns at its first nonzero element; 0 says it found
\* none and the scan goes on.
RECURSIVE get_min_on_cdf_loop(_, _, _)
get_min_on_cdf_loop(cdf, lo, hi) ==
    IF lo > hi THEN 0
    ELSE IF lo = hi
    THEN IF cdf[lo] # 0 THEN cdf[lo] ELSE 0
    ELSE LET mid  == (lo + hi) \div 2
             left == get_min_on_cdf_loop(cdf, lo, mid)
         IN  IF left # 0 THEN left
             ELSE get_min_on_cdf_loop(cdf, mid + 1, hi)

\* Mutant: the scan stops at bin 0 whether or not it is zero.
get_min_on_cdf_FirstBin(cdf) == cdf[0]

get_min_on_cdf(cdf) == get_min_on_cdf_loop(cdf, 0, NumBins - 1)

\* Truncation toward zero of n / d (d > 0): a double converted to int.
TruncDiv(n, d) == IF n >= 0 THEN n \div d ELSE -((-n) \div d)

\* equalized_value: static_cast<int>(255 * ((cdf[value] - min_value) /
\* (1.0 * (total - min_value)))), returned as byte.  The quotient q of two
\* ints below 2^31 is correctly rounded and 255 * q is rounded once more;
\* the result is within 2^-43 of 255 * n / d, which is either an integer k
\* (then n / d = k / 255 and static_cast<int>(255 * (k / 255.0)) = k for
\* each k in 0 .. 255) or at least 1 / d > 2^-31 away from one: the
\* truncation is that of the exact quotient.  With total = min_value the
\* quotient is 0 / 0.0, a NaN whose conversion to int is undefined: `nan`
\* is the int the build gives.
\* Mutant: the divisor is total, not total - min_value.
equalized_value_DividesByTotal(cdf, value, min_value, total, nan) ==
    IF total - min_value = 0
    THEN ToByte(nan)
    ELSE ToByte(TruncDiv(255 * (cdf[value] - min_value), total))

equalized_value(cdf, value, min_value, total, nan) ==
    IF total - min_value = 0
    THEN ToByte(nan)
    ELSE ToByte(TruncDiv(255 * (cdf[value] - min_value), total - min_value))

Equalize(image, nan) ==
    LET h             == GetHistogram(image)
        total_pixels  == image.width * image.height
        red_cdf       == set_cdf(h.red)
        green_cdf     == set_cdf(h.green)
        blue_cdf      == set_cdf(h.blue)
        min_red_cdf   == get_min_on_cdf(red_cdf)
        min_green_cdf == get_min_on_cdf(green_cdf)
        min_blue_cdf  == get_min_on_cdf(blue_cdf)
    IN  [image EXCEPT !.pixels =
            [k \in 1 .. Len(image.pixels) |->
                LET p == image.pixels[k]
                IN  [r |-> equalized_value(red_cdf, p.r, min_red_cdf,
                                           total_pixels, nan),
                     g |-> equalized_value(green_cdf, p.g, min_green_cdf,
                                           total_pixels, nan),
                     b |-> equalized_value(blue_cdf, p.b, min_blue_cdf,
                                           total_pixels, nan),
                     n |-> p.n]]]

----------------------------------------------------------------------------
(* CreateHistogramImage.  The chart is its width, its height, the three    *)
(* outlines DrawRectangle draws and, per channel and bin, the DrawLine     *)
(* call of the bar: <<x, y, xf, yf>>.                                      *)

red_rect ==
    [x |-> lr_borders, y |-> tb_borders,
     width |-> graph_width, height |-> graph_height]

green_rect ==
    [x |-> lr_borders, y |-> tb_borders + graph_height + in_between_borders,
     width |-> graph_width, height |-> graph_height]

blue_rect ==
    [x |-> lr_borders,
     y |-> tb_borders + 2 * (graph_height + in_between_borders),
     width |-> graph_width, height |-> graph_height]

RectOf(ch) ==
    CASE ch = "red"   -> red_rect
      [] ch = "green" -> green_rect
      [] ch = "blue"  -> blue_rect

ChartWidth == 2 * lr_borders + graph_width

\* Mutant: one gap between the three panels instead of two.
ChartHeight_OneGap == 2 * tb_borders + in_between_borders + 3 * graph_height

ChartHeight == 2 * tb_borders + 2 * in_between_borders + 3 * graph_height

\* *std::max_element(counts, counts + 256)
MaxCount(counts) == counts[max_element(AsInt64(counts))]

\* rect.y + graph_height * (count / (1.0 * max)), converted to the int yf
\* of DrawLine.  count / max = k / 256 is exact when 256 * count / max is
\* the integer k, and the product is at least 1 / max away from an integer
\* otherwise: the conversion truncates the exact value.  With max = 0 the
\* value is a NaN and `nan` the int the build converts it to.
BarEnd(rect, count, max, nan) ==
    IF max = 0 THEN nan
    ELSE rect.y + TruncDiv(graph_height * count, max)

\* The pixels DrawLine(x, y, xf, yf) sets: i in x .. xf, j in y .. yf.
DrawLine(line) == (line[1] .. line[3]) \X (line[2] .. line[4])

Bars(rect, counts, nan) ==
    LET max == MaxCount(counts)
    IN  [i \in Bins |->
            <<rect.x + i, rect.y, rect.x + i,
              BarEnd(rect, counts[i], max, nan)>>]

CreateHistogramImage(h, nan) ==
    [width    |-> ChartWidth,
     height   |-> ChartHeight,
     outlines |-> <<red_rect, green_rect, blue_rect>>,
     bars     |-> [red   |-> Bars(red_rect, h.red, nan),
                   green |-> Bars(green_rect, h.green, nan),
                   blue  |-> Bars(blue_rect, h.blue, nan)]]

NoChart == [width |-> 0, height |-> 0, outlines |-> <<>>, bars |-> <<>>]

----------------------------------------------------------------------------
(* The state machine: the commands of main, and Binarize called directly.  *)
(* No function of main.cpp throws or returns a status: every call ends     *)
(* with no error reported.                                                 *)

NoError == "none"

Call(op, cut) == [op |-> op, cut |-> cut, before |-> img]

Last == log[Len(log)]

\* The command runs on the input image, or again on what it wrote.
CanRun(op) ==
    IF log = <<>> THEN TRUE ELSE Len(log) < MaxRuns /\ Last.op = op

Init ==
    /\ img \in InputImages
    /\ log = <<>>
    /\ histogram = ZeroHistogram
    /\ chart = NoChart
    /\ error = NoError

\* case kHistogram
HistogramCmd ==
    /\ CanRun("histogram")
    /\ \E nan \in NaNToInt :
          /\ histogram' = GetHistogram(img)
          /\ chart' = CreateHistogramImage(histogram', nan)
    /\ img' = img
    /\ error' = NoError
    /\ log' = Append(log, Call("histogram", <<>>))

\* case kEqualization
EqualizeCmd ==
    /\ CanRun("equalize")
    /\ \E nan \in NaNToInt : img' = Equalize(img, nan)
    /\ histogram' = GetHistogram(img)
    /\ chart' = NoChart
    /\ error' = NoError
    /\ log' = Append(log, Call("equalize", <<>>))

\* case kCutout
CutoutCmd ==
    /\ CanRun("cutout")
    /\ img' = Cutout(img)
    /\ histogram' = ZeroHistogram
    /\ chart' = NoChart
    /\ error' = NoError
    /\ log' = Append(log, Call("cutout",
                               <<CutoutPoint, CutoutPoint, CutoutPoint>>))

\* case kTwoPeaks
TwoPeaksCmd ==
    /\ CanRun("two_peaks")
    /\ histogram' = GetHistogram(img)
    /\ \E build \in OverflowBuilds :
          LET done == TwoPeaks(img, build)
          IN  /\ img' = done.image
              /\ log' = Append(log, Call("two_peaks", done.cut))
    /\ chart' = NoChart
    /\ error' = NoError

\* Binarize with cut points of the caller's choice.
BinarizeCall ==
    /\ CanRun("binarize")
    /\ \E rc \in CutPoints, gc \in CutPoints, bc \in CutPoints :
          /\ IF log = <<>> THEN TRUE ELSE Last.cut = <<rc, gc, bc>>
          /\ img' = Binarize(img, rc, gc, bc)
          /\ log' = Append(log, Call("binarize", <<rc, gc, bc>>))
    /\ histogram' = ZeroHistogram
    /\ chart' = NoChart
    /\ error' = NoError

Next ==
    \/ HistogramCmd
    \/ EqualizeCmd
    \/ CutoutCmd
    \/ TwoPeaksCmd
    \/ BinarizeCall

Spec == Init /\ [][Next]_vars

----------------------------------------------------------------------------
(* What the claims speak of, stated on the pixels themselves.              *)

Ran(op) == log # <<>> /\ Last.op = op

Before == Last.before

ChannelIndex(ch) ==
    CASE ch = "red" -> 1 [] ch = "green" -> 2 [] ch = "blue" -> 3

\* The number of pixels whose channel ch holds a value of lo .. hi.
RECURSIVE PixelsIn(_, _, _, _, _)
PixelsIn(pixels, ch, lo, hi, k) ==
    IF k > Len(pixels) THEN 0
    ELSE (IF ChannelOf(pixels[k], ch) \in lo .. hi THEN pixels[k].n ELSE 0)
         + PixelsIn(pixels, ch, lo, hi, k + 1)

\* The values channel ch takes in the image.
ValuesOf(image, ch) ==
    { ChannelOf(image.pixels[k], ch) : k \in 1 .. Len(image.pixels) }

Lowest(S) == CHOOSE v \in S : \A w \in S : v <= w

\* cdf[v] and min_cdf of a channel: the pixels of value at most v, and the
\* pixels of the lowest value present (0 when the image has no pixel).
CdfAt(image, ch, v) == PixelsIn(image.pixels, ch, 0, v, 1)

MinCdf(image, ch) ==
    IF ValuesOf(image, ch) = {} THEN 0
    ELSE CdfAt(image, ch, Lowest(ValuesOf(image, ch)))

TotalPixels(image) == image.width * image.height

RECURSIVE SumBins(_, _, _)
SumBins(counts, lo, hi) ==
    IF lo > hi THEN 0
    ELSE IF lo = hi THEN counts[lo]
    ELSE SumBins(counts, lo, (lo + hi) \div 2)
         + SumBins(counts, (lo + hi) \div 2 + 1, hi)

MaxOf(counts) ==
    CHOOSE m \in {counts[k] : k \in Bins} : \A k \in Bins : counts[k] <= m

----------------------------------------------------------------------------
(* C1.  The histogram GetHistogram returns has 256 counts, none negative;  *)
(* count[k] of a channel is the number of pixels whose channel value is k, *)
(* and the counts of a channel sum to width * height (all are zero when    *)
(* the image has no pixel).                                                *)
C1_HistogramCountsPixels ==
    (Ran("histogram") \/ Ran("equalize") \/ Ran("two_peaks")) =>
        \A ch \in Channels :
            /\ DOMAIN histogram[ch] = Bins
            /\ \A k \in Bins :
                  /\ histogram[ch][k] >= 0
                  /\ histogram[ch][k] = PixelsIn(Before.pixels, ch, k, k, 1)
            /\ SumBins(histogram[ch], 0, NumBins - 1) = TotalPixels(Before)
            /\ TotalPixels(Before) = 0 =>
                  \A k \in Bins : histogram[ch][k] = 0

\* GetHistogram has run on an image of several colours and many pixels.
C1_Witness ==
    /\ Ran("histogram")
    /\ Len(Before.pixels) >= 3
    /\ Before.height = 2
    /\ histogram.green[50] > 255

----------------------------------------------------------------------------
(* C2.  After Binarize each channel of each pixel is 0 if its value was    *)
(* strictly below the channel's cut point and 255 otherwise, whatever the  *)
(* other two channels hold, so that it is 0 or 255; the cut points are in  *)
(* 0 .. 255 and Cutout's are 128, 128, 128.                                *)
C2_BinarizeByCutPoint ==
    (Ran("binarize") \/ Ran("cutout") \/ Ran("two_peaks")) =>
        /\ Last.cut \in (0 .. 255) \X (0 .. 255) \X (0 .. 255)
        /\ Ran("cutout") => Last.cut = <<128, 128, 128>>
        /\ img.width = Before.width /\ img.height = Before.height
        /\ Len(img.pixels) = Len(Before.pixels)
        /\ \A k \in 1 .. Len(img.pixels) :
              /\ img.pixels[k].n = Before.pixels[k].n
              /\ \A ch \in Channels :
                    /\ ChannelOf(img.pixels[k], ch) =
                          IF ChannelOf(Before.pixels[k], ch)
                               < Last.cut[ChannelIndex(ch)]
                          THEN 0 ELSE 255
                    /\ ChannelOf(img.pixels[k], ch) \in {0, 255}

\* Binarize has run with a cut point that a pixel holds exactly (it becomes
\* 255), on an image with a pixel below and a pixel above it.
C2_Witness ==
    /\ Ran("binarize")
    /\ Last.cut = <<100, 100, 255>>
    /\ \E k \in 1 .. Len(img.pixels) :
          Before.pixels[k].r = 100 /\ img.pixels[k].r = 255
    /\ \E k \in 1 .. Len(img.pixels) :
          Before.pixels[k].r = 0 /\ img.pixels[k].r = 0
    /\ \E k \in 1 .. Len(img.pixels) :
          Before.pixels[k].b = 127 /\ img.pixels[k] = [r |-> 255, g |-> 0,
                                                       b |-> 0, n |-> 255]

----------------------------------------------------------------------------
(* C4.  In a channel with total_pixels > min_cdf, Equalize replaces each   *)
(* value v by 255 * (cdf[v] - min_cdf) / (total_pixels - min_cdf)          *)
(* truncated toward zero, cdf being the prefix sum of the channel's        *)
(* histogram of the input image, and the new value is in 0 .. 255.         *)
C4_EqualizeRemapsByCdf ==
    Ran("equalize") =>
        /\ Len(img.pixels) = Len(Before.pixels)
        /\ \A ch \in Channels :
              LET total   == TotalPixels(Before)
                  min_cdf == MinCdf(Before, ch)
              IN  total > min_cdf =>
                    \A k \in 1 .. Len(img.pixels) :
                        LET v == ChannelOf(Before.pixels[k], ch)
                            e == ChannelOf(img.pixels[k], ch)
                        IN  /\ e = (255 * (CdfAt(Before, ch, v) - min_cdf))
                                     \div (total - min_cdf)
                            /\ e \in 0 .. 255
                            /\ img.pixels[k].n = Before.pixels[k].n

\* Equalize has run on an image whose green channel has three values, and
\* the middle one became neither 0 nor 255.
C4_Witness ==
    /\ Ran("equalize")
    /\ ValuesOf(Before, "green") = {50, 100, 200}
    /\ TotalPixels(Before) > MinCdf(Before, "green")
    /\ \E k \in 1 .. Len(img.pixels) : img.pixels[k].g \in 1 .. 254

----------------------------------------------------------------------------
(* C6 as claimed: the image CreateHistogramImage returns is 2*30 + 256    *)
(* wide and 2*10 + 2*30 + 3*256 high, that is 316 by 1126, whatever the    *)
(* size of the image the histogram was taken of.                           *)
C6_ChartIs316By1126 ==
    Ran("histogram") =>
        /\ chart.width = 2 * 30 + 256
        /\ chart.height = 2 * 10 + 2 * 30 + 3 * 256
        /\ chart.width = 316
        /\ chart.height = 1126

(* C6 as amended: the image CreateHistogramImage returns is 2*30 + 256     *)
(* wide and 2*10 + 2*30 + 3*256 high, that is 316 by 848, whatever the     *)
(* size of the image the histogram was taken of.                           *)
C6_ChartIs316By848 ==
    Ran("histogram") =>
        /\ chart.width = 2 * 30 + 256
        /\ chart.height = 2 * 10 + 2 * 30 + 3 * 256
        /\ chart.width = 316
        /\ chart.height = 848

\* A chart has been made of the histogram of an image of more pixels than
\* the chart has.
C6_Witness ==
    /\ Ran("histogram")
    /\ chart # NoChart
    /\ TotalPixels(Before) > 100000

----------------------------------------------------------------------------
(* C7.  The image the i-th run of Equalize was given and the image it      *)
(* wrote.                                                                  *)
Given(i) == log[i].before

Wrote(i) == IF i = Len(log) THEN img ELSE log[i + 1].before

NonDegenerate(image) ==
    \A ch \in Channels : TotalPixels(image) > MinCdf(image, ch)

\* In every channel, Equalize mapped to 0 only the lowest value present.
OnlyLowestToZero(given, wrote) ==
    \A ch \in Channels : \A k \in 1 .. Len(given.pixels) :
        ChannelOf(wrote.pixels[k], ch) = 0 =>
            ChannelOf(given.pixels[k], ch) = Lowest(ValuesOf(given, ch))

(* C7 as claimed: on an image on which Equalize is non-degenerate, a       *)
(* second Equalize changes no pixel of the equalized image.                *)
C7_EqualizeTwiceIsFixed ==
    Ran("equalize") =>
        \A i \in 2 .. Len(log) :
            NonDegenerate(Given(i - 1)) => Wrote(i).pixels = Wrote(i - 1).pixels

(* C7 as amended: ... provided that, in every channel, the first Equalize  *)
(* mapped no value other than the lowest one present to 0.                 *)
C7_EqualizeTwiceIsFixedIfOnlyLowestIsZero ==
    Ran("equalize") =>
        \A i \in 2 .. Len(log) :
            (NonDegenerate(Given(i - 1))
             /\ OnlyLowestToZero(Given(i - 1), Wrote(i - 1)))
                => Wrote(i).pixels = Wrote(i - 1).pixels

\* Equalize has run twice on an image of four colours that the first run
\* changed, mapping only the lowest value of each channel to 0.
C7_Witness ==
    /\ Ran("equalize")
    /\ Len(log) = 2
    /\ Len(Given(1).pixels) = 4
    /\ NonDegenerate(Given(1))
    /\ OnlyLowestToZero(Given(1), Wrote(1))
    /\ Wrote(1).pixels # Given(1).pixels
    /\ Wrote(2).pixels = Wrote(1).pixels

----------------------------------------------------------------------------
(* C3.  The cut point TwoPeaks passes to Binarize for a channel is         *)
(* floor((peak1 + peak2) / 2), peak1 being the lowest index with the       *)
(* maximum count and peak2 the lowest index maximizing the exact value of  *)
(* (i - peak1)^2 * histogram[i], also when that value is beyond 32 bits.   *)
Peak1(counts) ==
    CHOOSE i \in Bins :
        /\ \A j \in Bins : counts[j] <= counts[i]
        /\ \A j \in 0 .. (i - 1) : counts[j] < counts[i]

ExactDistance(counts, peak1, i) ==
    WideProduct((i - peak1) * (i - peak1), counts[i])

Peak2(counts, peak1) ==
    CHOOSE i \in Bins :
        /\ \A j \in Bins :
              ~Less64(ExactDistance(counts, peak1, i),
                      ExactDistance(counts, peak1, j))
        /\ \A j \in 0 .. (i - 1) :
              Less64(ExactDistance(counts, peak1, j),
                     ExactDistance(counts, peak1, i))

C3_CutPointIsMidpointOfExactPeaks ==
    Ran("two_peaks") =>
        \A ch \in Channels :
            LET peak1 == Peak1(histogram[ch])
                peak2 == Peak2(histogram[ch], peak1)
            IN  Last.cut[ChannelIndex(ch)] = (peak1 + peak2) \div 2

----------------------------------------------------------------------------
(* C8.  The cut point TwoPeaks derives from the histogram c * h (every     *)
(* count of h multiplied by the positive integer c) is the one it derives  *)
(* from h.  c * h is a histogram when its counts are ints.                 *)
Scalable(counts, c) == \A k \in Bins : counts[k] <= INT_MAX \div c

Scaled(counts, c) == [k \in Bins |-> c * counts[k]]

C8_CutPointUnchangedByScaling ==
    Ran("two_peaks") =>
        \A ch \in Channels : \A c \in Scales : \A build \in OverflowBuilds :
            Scalable(histogram[ch], c) =>
                CutPointOf(Scaled(histogram[ch], c), build)
                    = CutPointOf(histogram[ch], build)

----------------------------------------------------------------------------
(* C5.  When all the pixels of the image share one value in some channel   *)
(* (total_pixels = min_cdf), Equalize reports a DegenerateHistogram        *)
(* failure to its caller and writes no pixel.                              *)
C5_DegenerateHistogramReported ==
    (/\ Ran("equalize")
     /\ TotalPixels(Before) > 0
     /\ \E ch \in Channels : TotalPixels(Before) = MinCdf(Before, ch))
        => error = "DegenerateHistogram" /\ img = Before

----------------------------------------------------------------------------
(* C9.  Given a histogram in which the maximum count of some channel is 0, *)
(* CreateHistogramImage reports an EmptyImage error to its caller and      *)
(* returns no chart.                                                       *)
C9_EmptyImageReported ==
    (/\ Ran("histogram")
     /\ \E ch \in Channels : MaxOf(histogram[ch]) = 0)
        => error = "EmptyImage" /\ chart = NoChart

----------------------------------------------------------------------------
(* C10.  When the three maxima of the histogram are positive, every pixel  *)
(* a bar of a channel sets is inside the channel's panel (columns          *)
(* rect.x .. rect.x + 255, rows rect.y .. rect.y + 255) and inside the     *)
(* chart.                                                                  *)
Panel(rect) ==
    (rect.x .. (rect.x + rect.width - 1))
        \X (rect.y .. (rect.y + rect.height - 1))

C10_BarsStayInsidePanel ==
    (/\ Ran("histogram")
     /\ \A ch \in Channels : MaxOf(histogram[ch]) > 0)
        => \A ch \in Channels : \A i \in Bins :
              \A px \in DrawLine(chart.bars[ch][i]) :
                  /\ px \in Panel(RectOf(ch))
                  /\ px[1] \in 0 .. (chart.width - 1)
                  /\ px[2] \in 0 .. (chart.height - 1)

====
